---- MODULE Spec2Model ----
(***************************************************************************)
(* Model of the supabasego query builder (table.go, client.go).            *)
(* Go strings are TLA+ strings; TLC evaluates Len, \o and SubSeq on them,  *)
(* so formatting, URL escaping and substring search are computed           *)
(* character by character as the Go library does.                          *)
(***************************************************************************)
EXTENDS Integers, Sequences, FiniteSets, TLC

\* ------------------------------------------------------------------ bounds
MaxFilters == 2      \* filters held by one builder

\* ------------------------------------------------------------ Go strings
CharAt(s, i) == SubSeq(s, i, i)

\* strings.Contains(s, sub)
Contains(s, sub) ==
    \E i \in 1..(Len(s) - Len(sub) + 1) : SubSeq(s, i, i + Len(sub) - 1) = sub

\* the printable ASCII characters 0x20..0x5F and 0x61..0x7E, in code order
AsciiLow ==
    " !\"#$%&'(" \o ")*+,-./0123456789:;<=>?@ABCDEFGHIJKLMNOPQRSTUVWXYZ[\\]^_"

AsciiHigh == "abcdefghijklmnopqrstuvwxyz{|}~"

\* the byte value of each printable character
CodeTable ==
    [c \in { CharAt(AsciiLow, i) : i \in 1..Len(AsciiLow) }
            \cup { CharAt(AsciiHigh, i) : i \in 1..Len(AsciiHigh) } |->
        IF \E i \in 1..Len(AsciiLow) : CharAt(AsciiLow, i) = c
        THEN 31 + (CHOOSE i \in 1..Len(AsciiLow) : CharAt(AsciiLow, i) = c)
        ELSE 96 + (CHOOSE i \in 1..Len(AsciiHigh) : CharAt(AsciiHigh, i) = c)]

\* the byte value of a one-character string
Code(c) == CodeTable[c]

\* bytewise a < b, the order sort.Strings uses
RECURSIVE StrLess(_, _)
StrLess(a, b) ==
    IF Len(b) = 0 THEN FALSE
    ELSE IF Len(a) = 0 THEN TRUE
    ELSE IF Head(a) = Head(b) THEN StrLess(Tail(a), Tail(b))
    ELSE Code(Head(a)) < Code(Head(b))

\* strings.Join(parts, sep)
RECURSIVE Join(_, _)
Join(parts, sep) ==
    IF Len(parts) = 0 THEN ""
    ELSE IF Len(parts) = 1 THEN parts[1]
    ELSE parts[1] \o sep \o Join(Tail(parts), sep)

\* fmt.Sprintf("%d", n) for n >= 0
RECURSIVE Itoa(_)
Itoa(n) ==
    IF n < 10 THEN CharAt("0123456789", n + 1)
    ELSE Itoa(n \div 10) \o CharAt("0123456789", (n % 10) + 1)

\* strings.ToLower on the letters the inputs use
LowerOf(c) ==
    IF Code(c) >= 65 /\ Code(c) <= 90 THEN CharAt(AsciiHigh, Code(c) + 32 - 96) ELSE c

RECURSIVE ToLower(_)
ToLower(s) == IF Len(s) = 0 THEN "" ELSE LowerOf(Head(s)) \o ToLower(Tail(s))

\* ---------------------------------------------------------- net/url
Unreserved ==
    { CharAt("abcdefghijklmnopqrstuvwxyzABCDEFGHIJKLMNOPQRSTUVWXYZ0123456789-_.~", i) : i \in 1..66 }

\* url.shouldEscape(c, encodeQueryComponent)
shouldEscape(c) == c \notin Unreserved

HexDigit(d) == CharAt("0123456789ABCDEF", d + 1)

\* url.QueryEscape
RECURSIVE QueryEscape(_)
QueryEscape(s) ==
    IF Len(s) = 0 THEN ""
    ELSE LET c == Head(s)
             e == IF ~shouldEscape(c) THEN c
                  ELSE IF c = " " THEN "+"
                  ELSE "%" \o HexDigit(Code(c) \div 16) \o HexDigit(Code(c) % 16)
         IN  e \o QueryEscape(Tail(s))

\* url.Values is modelled as the sequence of <<key, value>> pairs in the
\* order of the Add calls; Add appends.
ParamsAdd(params, k, v) == Append(params, <<k, v>>)

ParamKeys(params) == { params[i][1] : i \in 1..Len(params) }

\* the values of key k, in insertion order
RECURSIVE ParamValues(_, _)
ParamValues(params, k) ==
    IF Len(params) = 0 THEN <<>>
    ELSE IF params[1][1] = k THEN <<params[1][2]>> \o ParamValues(Tail(params), k)
    ELSE ParamValues(Tail(params), k)

\* the keys of a set, sorted bytewise
RECURSIVE SortKeys(_)
SortKeys(ks) ==
    IF ks = {} THEN <<>>
    ELSE LET m == CHOOSE k \in ks : \A o \in ks : o = k \/ StrLess(k, o)
         IN  <<m>> \o SortKeys(ks \ {m})

\* "k=v1&k=v2" for one key
EncodeKey(k, vs) ==
    Join([i \in 1..Len(vs) |-> QueryEscape(k) \o "=" \o QueryEscape(vs[i])], "&")

\* url.Values.Encode: keys sorted, values of one key in insertion order
Encode(params) ==
    LET keys == SortKeys(ParamKeys(params))
    IN  Join([i \in 1..Len(keys) |-> EncodeKey(keys[i], ParamValues(params, keys[i]))], "&")

\* textproto.CanonicalMIMEHeaderKey: the first letter and every letter after
\* a hyphen upper case, the rest lower case
UpperOf(c) ==
    IF Code(c) >= 97 /\ Code(c) <= 122 THEN CharAt(AsciiLow, Code(c) - 32 - 31) ELSE c

RECURSIVE CanonicalFrom(_, _)
CanonicalFrom(s, upper) ==
    IF Len(s) = 0 THEN ""
    ELSE (IF upper THEN UpperOf(Head(s)) ELSE LowerOf(Head(s)))
         \o CanonicalFrom(Tail(s), Head(s) = "-")

CanonicalMIMEHeaderKey(s) == CanonicalFrom(s, TRUE)

\* http.Header.Set: a header is a set of <<canonical name, value>> pairs
HeaderSet(h, k, v) ==
    { p \in h : p[1] # CanonicalMIMEHeaderKey(k) } \cup { <<CanonicalMIMEHeaderKey(k), v>> }

\* http.Header.Get / presence, by case-insensitive name
HeaderHas(h, k) == \E p \in h : p[1] = CanonicalMIMEHeaderKey(k)
HeaderGet(h, k) ==
    IF HeaderHas(h, k) THEN (CHOOSE p \in h : p[1] = CanonicalMIMEHeaderKey(k))[2] ELSE ""

\* ------------------------------------------------- Go values (interface{})
\* kind "nil": the nil interface; "nilptr": a typed nil pointer of type typ;
\* "ptr": a non-nil pointer of type typ at address addr whose pointee is
\* text/num; "string", "int": scalars.
NilV == [kind |-> "nil", typ |-> "", text |-> "", num |-> 0, addr |-> ""]
NilPtr(t) == [kind |-> "nilptr", typ |-> t, text |-> "", num |-> 0, addr |-> ""]
StrV(s) == [kind |-> "string", typ |-> "string", text |-> s, num |-> 0, addr |-> ""]
IntV(n) == [kind |-> "int", typ |-> "int", text |-> "", num |-> n, addr |-> ""]
PtrStr(s, a) == [kind |-> "ptr", typ |-> "*string", text |-> s, num |-> 0, addr |-> a]
PtrInt(n, a) == [kind |-> "ptr", typ |-> "*int", text |-> "", num |-> n, addr |-> a]

PtrTypes == {"*string", "*int", "*time.Time"}

\* v == nil for an interface value: true of the nil interface only, a typed
\* nil pointer stored in an interface is not nil
IsNilInterface(v) == v.kind = "nil"

\* the claims' notion of a null value: nil or a nil *string/*int/*time.Time
IsNull(v) == v.kind = "nil" \/ (v.kind = "nilptr" /\ v.typ \in PtrTypes)

\* fmt's %v verb: nil and nil pointers print <nil>, a non-nil pointer to a
\* scalar prints its address
FmtV(v) ==
    CASE v.kind = "nil" -> "<nil>"
      [] v.kind = "nilptr" -> "<nil>"
      [] v.kind = "string" -> v.text
      [] v.kind = "int" -> Itoa(v.num)
      [] v.kind = "ptr" -> v.addr

\* ------------------------------------------------------------- filters
simpleFilter(field, op, value) ==
    [kind |-> "simple", field |-> field, op |-> op, value |-> value,
     operator |-> "", filters |-> <<>>]

groupFilter(operator, fs) ==
    [kind |-> "group", field |-> "", op |-> "", value |-> NilV,
     operator |-> operator, filters |-> fs]

\* the rendering without the nil *int case
simpleToQuery_NoIntCase(f) ==
    IF IsNilInterface(f.value) THEN f.field \o ".is.null"
    ELSE IF f.value.kind = "nilptr" /\ f.value.typ = "*string" THEN f.field \o ".is.null"
    ELSE IF f.value.kind = "nilptr" /\ f.value.typ = "*time.Time" THEN f.field \o ".is.null"
    ELSE IF f.op = "in" THEN f.field \o ".in." \o FmtV(f.value)
    ELSE f.field \o "." \o f.op \o "." \o FmtV(f.value)

\* simpleFilter.toQuery
simpleToQuery(f) ==
    IF IsNilInterface(f.value) THEN f.field \o ".is.null"
    ELSE IF f.value.kind = "nilptr" /\ f.value.typ = "*string" THEN f.field \o ".is.null"
    ELSE IF f.value.kind = "nilptr" /\ f.value.typ = "*int" THEN f.field \o ".is.null"
    ELSE IF f.value.kind = "nilptr" /\ f.value.typ = "*time.Time" THEN f.field \o ".is.null"
    ELSE IF f.op = "in" THEN f.field \o ".in." \o FmtV(f.value)
    ELSE f.field \o "." \o f.op \o "." \o FmtV(f.value)

RECURSIVE toQuery(_)
\* the group rendering with the children in reverse order
groupToQuery_Reversed(g) ==
    g.operator \o "("
        \o Join([i \in 1..Len(g.filters) |-> toQuery(g.filters[Len(g.filters) + 1 - i])], ",")
        \o ")"

\* groupFilter.toQuery
groupToQuery(g) ==
    g.operator \o "(" \o Join([i \in 1..Len(g.filters) |-> toQuery(g.filters[i])], ",") \o ")"

toQuery(f) == IF f.kind = "simple" THEN simpleToQuery(f) ELSE groupToQuery(f)

Eq(field, value) == simpleFilter(field, "eq", value)
NotEq(field, value) == simpleFilter(field, "neq", value)
Gt(field, value) == simpleFilter(field, "gt", value)
Lt(field, value) == simpleFilter(field, "lt", value)
Gte(field, value) == simpleFilter(field, "gte", value)
Lte(field, value) == simpleFilter(field, "lte", value)
Like(field, pattern) == simpleFilter(field, "like", StrV(pattern))
ILike(field, pattern) == simpleFilter(field, "ilike", StrV(pattern))
And(fs) == groupFilter("and", fs)
Or(fs) == groupFilter("or", fs)

\* one element of In's list
InElem(v) ==
    IF IsNilInterface(v) THEN "null"
    ELSE IF v.typ = "*string" THEN (IF v.kind = "nilptr" THEN "null" ELSE v.text)
    ELSE IF v.typ = "*int" THEN (IF v.kind = "nilptr" THEN "null" ELSE Itoa(v.num))
    ELSE IF v.typ = "*time.Time" /\ v.kind = "nilptr" THEN "null"
    ELSE FmtV(v)

In(field, values) ==
    simpleFilter(field, "in",
                 StrV("(" \o Join([i \in 1..Len(values) |-> InElem(values[i])], ",") \o ")"))

\* ------------------------------------------------------- encoding/json
\* A row is a struct { ID string `json:"id,omitempty"`; Name string
\* `json:"name"` }, modelled as a record [id, name].
Row(id, name) == [id |-> id, name |-> name]

MarshalRow(r) ==
    "{" \o (IF r.id = "" THEN "" ELSE "\"id\":\"" \o r.id \o "\",")
        \o "\"name\":\"" \o r.name \o "\"}"

\* A Go argument of a terminal call: shape "struct" (rows has one row),
\* "slice" (rows are its elements), "map" (pairs are its entries) or "chan"
\* (a value json.Marshal rejects); ptr tells whether a pointer was passed.
GoArg(shape, ptr, rows) == [shape |-> shape, ptr |-> ptr, rows |-> rows]

\* json.Marshal: <<ok, text>>
Marshal(a) ==
    CASE a.shape = "struct" -> <<TRUE, MarshalRow(a.rows[1])>>
      [] a.shape = "slice" ->
            <<TRUE, "[" \o Join([i \in 1..Len(a.rows) |-> MarshalRow(a.rows[i])], ",") \o "]">>
      [] a.shape = "map" -> <<TRUE, MarshalRow(a.rows[1])>>
      [] OTHER -> <<FALSE, "">>

\* A response body: its text and the JSON value the text denotes, shape
\* "array" or "object" of rows, or "invalid" for text that is not JSON.
JsonBody(shape, rows) ==
    [text |-> IF shape = "array"
              THEN "[" \o Join([i \in 1..Len(rows) |-> MarshalRow(rows[i])], ",") \o "]"
              ELSE MarshalRow(rows[1]),
     shape |-> shape, rows |-> rows]

TextBody(t) == [text |-> t, shape |-> "invalid", rows |-> <<>>]

\* a decoded row overwrites the fields the JSON object names
MergeRow(old, new) == [id |-> IF new.id = "" THEN old.id ELSE new.id, name |-> new.name]

\* json.NewDecoder(body).Decode(target): <<error text, target after the call>>.
\* The value is read first (a syntax error), then Unmarshal rejects a target
\* that is not a pointer, then the JSON shape must fit the target's type.
Decode(body, target) ==
    IF body.shape = "invalid"
    THEN <<"invalid character looking for beginning of value", target>>
    ELSE IF ~target.ptr
    THEN <<"json: Unmarshal(non-pointer)", target>>
    ELSE IF body.shape = "array" /\ target.shape = "slice"
    THEN <<"", [target EXCEPT !.rows = body.rows]>>
    ELSE IF body.shape = "object" /\ target.shape \in {"struct", "map"}
    THEN <<"", [target EXCEPT !.rows = <<MergeRow(target.rows[1], body.rows[1])>>]>>
    ELSE <<"json: cannot unmarshal " \o body.shape \o " into Go value", target>>

\* ------------------------------------------------------------ client.go
REST_URL == "/rest/v1"

NewClient(cfg) == [BaseURL |-> cfg.BaseURL, APIKey |-> cfg.APIKey]

\* an HTTP request, and the value of "no request was issued"
Request(method, url, params, header, body) ==
    [method |-> method, url |-> url, params |-> params, header |-> header, body |-> body]

NoRequest == Request("", "", <<>>, {}, "")

\* what Client.Do returns: a transport error, or a response
Response(status, body) == [failed |-> FALSE, status |-> status, body |-> body]
TransportError == [failed |-> TRUE, status |-> 0, body |-> TextBody("")]
NoResponse == [failed |-> FALSE, status |-> 0, body |-> TextBody("")]

\* an error value: kind "" is nil
NoError == [kind |-> "", msg |-> ""]
Error(kind, msg) == [kind |-> kind, msg |-> msg]

\* ------------------------------------------------------------- table.go
VARIABLES
    client,      \* the Client the builder refers to
    tableName,   \* Table.tableName
    filters,     \* Table.filters
    orders,      \* Table.orders
    limit,       \* Table.limit
    offset,      \* Table.offset
    selectCols,  \* Table.selectCols
    op,          \* the terminal operation the latest step performed, "" if none
    token,       \* its jwtToken argument
    arg,         \* its dest / record / values argument before the call
    req,         \* the request it handed to Client.Do, NoRequest if none
    sent,        \* the number of Client.Do calls it made
    resp,        \* what Client.Do returned
    err,         \* the error it returned
    out,         \* its dest / record / values argument after the call
    fin,         \* the filter handed to toQuery
    fout,        \* its rendering, "" before toQuery ran
    fargs        \* the field and value list handed to In, NoInArgs if none

vars == <<client, tableName, filters, orders, limit, offset, selectCols,
          op, token, arg, req, sent, resp, err, out, fin, fout, fargs>>

builder == <<client, tableName, filters, orders, limit, offset, selectCols>>
call == <<op, token, arg, req, sent, resp, err, out>>
render == <<fin, fout, fargs>>

NoArg == GoArg("", FALSE, <<>>)

\* no terminal operation is in progress
NoCall ==
    /\ op' = ""
    /\ token' = ""
    /\ arg' = NoArg
    /\ req' = NoRequest
    /\ sent' = 0
    /\ resp' = NoResponse
    /\ err' = NoError
    /\ out' = NoArg

\* the query parameters Select adds for the filters
RECURSIVE SelectFilterParams(_, _)
SelectFilterParams(params, fs) ==
    IF Len(fs) = 0 THEN params
    ELSE LET f == Head(fs)
             p == IF f.kind = "simple"
                  THEN IF IsNilInterface(f.value) THEN params
                       ELSE ParamsAdd(params, f.field, f.op \o "." \o FmtV(f.value))
                  ELSE ParamsAdd(params, f.operator,
                                 SubSeq(toQuery(f), Len(f.operator) + 2, Len(toQuery(f))))
         IN  SelectFilterParams(p, Tail(fs))

\* the query parameters Update adds for the filters
RECURSIVE UpdateFilterParams(_, _)
UpdateFilterParams(params, fs) ==
    IF Len(fs) = 0 THEN params
    ELSE LET f == Head(fs)
             p == IF f.kind = "simple"
                  THEN ParamsAdd(params, f.field, f.op \o "." \o FmtV(f.value))
                  ELSE ParamsAdd(params, f.operator,
                                 SubSeq(toQuery(f), Len(f.operator) + 2, Len(toQuery(f))))
         IN  UpdateFilterParams(p, Tail(fs))

\* the query parameters Delete adds for the filters
RECURSIVE DeleteFilterParams(_, _)
DeleteFilterParams(params, fs) ==
    IF Len(fs) = 0 THEN params
    ELSE DeleteFilterParams(ParamsAdd(params, "or", toQuery(Head(fs))), Tail(fs))

\* all query parameters of Select
SelectParams ==
    LET p1 == SelectFilterParams(<<>>, filters)
        p2 == IF limit > 0 THEN ParamsAdd(p1, "limit", Itoa(limit)) ELSE p1
        p3 == IF offset > 0 THEN ParamsAdd(p2, "offset", Itoa(offset)) ELSE p2
        p4 == IF Len(orders) > 0
              THEN ParamsAdd(p3, "order",
                       Join([i \in 1..Len(orders) |->
                                orders[i].field \o "." \o orders[i].direction], ","))
              ELSE p3
    IN  IF Len(selectCols) > 0
        THEN ParamsAdd(p4, "select", Join(selectCols, ","))
        ELSE ParamsAdd(p4, "select", "*")

\* the endpoint of a terminal operation with the given query parameters
Endpoint(params) ==
    client.BaseURL \o REST_URL \o "/" \o tableName
        \o (IF Len(params) > 0 THEN "?" \o Encode(params) ELSE "")

\* the headers with Authorization set whatever the token
AuthHeaders_Always(jwtToken) ==
    HeaderSet(HeaderSet({}, "apikey", client.APIKey), "Authorization", "Bearer " \o jwtToken)

\* the apikey and Authorization headers every terminal operation sets
AuthHeaders(jwtToken) ==
    LET h == HeaderSet({}, "apikey", client.APIKey)
    IN  IF jwtToken # "" THEN HeaderSet(h, "Authorization", "Bearer " \o jwtToken) ELSE h

\* the status check with the boundary status 400 let through
IsServerError_Above400(r) == r.status > 400

\* resp.StatusCode >= 400
IsServerError(r) == r.status >= 400

\* the message of the error Client.Do returns when the transport fails
TransportMsg == "dial tcp: connection refused"

\* AddFilter: the builder's filters with f appended
AddFilter(f) == Append(filters, f)

\* a chain call is taken while the builder holds fewer than MaxFilters filters
CanChain == Len(filters) < MaxFilters

\* what a filter chain call leaves alone
FilterFrame ==
    /\ NoCall
    /\ UNCHANGED <<client, tableName, orders, limit, offset, selectCols, render>>

\* ---- inputs of the chain calls
EqArgs == { <<"deleted_at", NilV>>, <<"deleted_at", NilPtr("*string")>>, <<"user_id", StrV("u1")>> }
NotEqArgs == { <<"deleted_at", NilV>>, <<"id", StrV("t1")>> }
GtArgs == { <<"max_users", IntV(5)>> }
LtArgs == { <<"max_users", NilPtr("*int")>> }
GteArgs == { <<"created_at", NilPtr("*time.Time")>> }
LteArgs == { <<"plan", PtrStr("pro", "0xc000014250")>> }
LikeArgs == { <<"name", "Ac%">> }
InArgs == { <<"plan", <<StrV("pro"), NilV>> >> }
AndArgs == { <<Eq("deleted_at", NilV), Gt("max_users", IntV(5))>> }
OrArgs == { <<And(<<Eq("plan", StrV("pro")), Gt("max_users", IntV(5))>>),
              Eq("plan", StrV("enterprise"))>> }

Table_Eq ==
    \E a \in EqArgs :
        /\ CanChain
        /\ filters' = AddFilter(Eq(a[1], a[2]))
        /\ FilterFrame
Table_NotEq ==
    \E a \in NotEqArgs :
        /\ CanChain
        /\ filters' = AddFilter(NotEq(a[1], a[2]))
        /\ FilterFrame
Table_Gt ==
    \E a \in GtArgs :
        /\ CanChain
        /\ filters' = AddFilter(Gt(a[1], a[2]))
        /\ FilterFrame
Table_Lt ==
    \E a \in LtArgs :
        /\ CanChain
        /\ filters' = AddFilter(Lt(a[1], a[2]))
        /\ FilterFrame
Table_Gte ==
    \E a \in GteArgs :
        /\ CanChain
        /\ filters' = AddFilter(Gte(a[1], a[2]))
        /\ FilterFrame
Table_Lte ==
    \E a \in LteArgs :
        /\ CanChain
        /\ filters' = AddFilter(Lte(a[1], a[2]))
        /\ FilterFrame
Table_Like ==
    \E a \in LikeArgs :
        /\ CanChain
        /\ filters' = AddFilter(Like(a[1], a[2]))
        /\ FilterFrame
Table_ILike ==
    \E a \in LikeArgs :
        /\ CanChain
        /\ filters' = AddFilter(ILike(a[1], a[2]))
        /\ FilterFrame
Table_In ==
    \E a \in InArgs :
        /\ CanChain
        /\ filters' = AddFilter(In(a[1], a[2]))
        /\ FilterFrame
Table_And ==
    \E fs \in AndArgs :
        /\ CanChain
        /\ filters' = AddFilter(And(fs))
        /\ FilterFrame
Table_Or ==
    \E fs \in OrArgs :
        /\ CanChain
        /\ filters' = AddFilter(Or(fs))
        /\ FilterFrame

\* ---- inputs of the terminal calls
Tokens == {"", "tok123"}

ServerRows == <<Row("x1", "Acme")>>

Responses ==
    { TransportError,
      Response(201, JsonBody("array", ServerRows)),
      Response(200, JsonBody("object", ServerRows)),
      Response(400, TextBody("duplicate key value")),
      Response(404, TextBody("relation not found")) }

\* the inputs of the terminal calls where the builder is under test
MainResponses ==
    { Response(201, JsonBody("array", ServerRows)),
      Response(404, TextBody("relation not found")) }
MainRecords == { GoArg("slice", TRUE, <<Row("", "Acme")>>) }
MainValues == { GoArg("map", FALSE, <<Row("", "NewName")>>) }

Dests == { GoArg("slice", TRUE, <<>>) }

Records ==
    { GoArg("struct", FALSE, <<Row("", "Acme")>>),
      GoArg("struct", TRUE, <<Row("", "Acme")>>),
      GoArg("slice", TRUE, <<Row("", "Acme")>>),
      GoArg("chan", FALSE, <<>>) }

UpdateValues == { GoArg("map", FALSE, <<Row("", "NewName")>>), GoArg("chan", FALSE, <<>>) }

\* the part of a terminal call after Client.Do returned r: the transport
\* error, the status check, and the decoding into target when decode is set
Respond(name, prefix, wrap, r, target, decode) ==
    /\ resp' = r
    /\ IF r.failed
       THEN /\ err' = Error("transport", wrap \o TransportMsg)
            /\ out' = target
       ELSE IF IsServerError(r)
       THEN /\ err' = Error("server", "supabase: " \o name \o " failed: " \o r.body.text)
            /\ out' = target
       ELSE IF decode
       THEN LET d == Decode(r.body, target)
            IN  /\ err' = IF d[1] = "" THEN NoError ELSE Error("decode", prefix \o d[1])
                /\ out' = d[2]
       ELSE /\ err' = NoError
            /\ out' = target

\* the headers of a request with a JSON body
WriteHeaders(jwtToken) ==
    HeaderSet(HeaderSet(AuthHeaders(jwtToken), "Content-Type", "application/json"),
              "Prefer", "return=representation")

SelectRequest(jwtToken) ==
    Request("GET", Endpoint(SelectParams), SelectParams,
            HeaderSet(AuthHeaders(jwtToken), "Accept", "application/json"), "")

InsertRequest(record, jwtToken) ==
    Request("POST", Endpoint(<<>>), <<>>, WriteHeaders(jwtToken), Marshal(record)[2])

UpdateRequest(values, jwtToken) ==
    Request("PATCH", Endpoint(UpdateFilterParams(<<>>, filters)),
            UpdateFilterParams(<<>>, filters), WriteHeaders(jwtToken), Marshal(values)[2])

DeleteRequest(jwtToken) ==
    Request("DELETE", Endpoint(DeleteFilterParams(<<>>, filters)),
            DeleteFilterParams(<<>>, filters),
            HeaderSet(AuthHeaders(jwtToken), "Prefer", "return=representation"), "")

\* Select fetches records from the table into dest
\* a Select that uses up the filters it rendered
Select_ClearsFilters(dest, jwtToken, rs) ==
    /\ op' = "Select"
    /\ token' = jwtToken
    /\ arg' = dest
    /\ req' = SelectRequest(jwtToken)
    /\ sent' = 1
    /\ \E r \in rs : Respond("select", "", "", r, dest, TRUE)
    /\ filters' = <<>>
    /\ UNCHANGED <<client, tableName, orders, limit, offset, selectCols, render>>

\* Select fetches records from the table into dest
Select(dest, jwtToken, rs) ==
    /\ op' = "Select"
    /\ token' = jwtToken
    /\ arg' = dest
    /\ req' = SelectRequest(jwtToken)
    /\ sent' = 1
    /\ \E r \in rs : Respond("select", "", "", r, dest, TRUE)
    /\ UNCHANGED <<builder, render>>

\* Insert inserts one or more records into the table
Insert(record, jwtToken, rs) ==
    /\ op' = "Insert"
    /\ token' = jwtToken
    /\ arg' = record
    /\ IF ~Marshal(record)[1]
       THEN /\ req' = NoRequest
            /\ sent' = 0
            /\ resp' = NoResponse
            /\ err' = Error("marshal", "failed to marshal record: json: unsupported type")
            /\ out' = record
       ELSE /\ req' = InsertRequest(record, jwtToken)
            /\ sent' = 1
            /\ \E r \in rs :
                  Respond("insert", "failed to decode insert response: ",
                          "insert request failed: ", r, record, TRUE)
    /\ UNCHANGED <<builder, render>>

\* Update updates records matching filters with given values
\* an Update that sends its request whether or not the values were encoded
Update_SendsUnencoded(values, jwtToken, rs) ==
    /\ op' = "Update"
    /\ token' = jwtToken
    /\ arg' = values
    /\ req' = UpdateRequest(values, jwtToken)
    /\ sent' = 1
    /\ IF ~Marshal(values)[1]
       THEN /\ resp' \in rs
            /\ err' = Error("marshal", "json: unsupported type")
            /\ out' = values
       ELSE \E r \in rs : Respond("update", "", "", r, values, FALSE)
    /\ UNCHANGED <<builder, render>>

\* Update updates the records matching the filters
Update(values, jwtToken, rs) ==
    /\ op' = "Update"
    /\ token' = jwtToken
    /\ arg' = values
    /\ IF ~Marshal(values)[1]
       THEN /\ req' = NoRequest
            /\ sent' = 0
            /\ resp' = NoResponse
            /\ err' = Error("marshal", "json: unsupported type")
            /\ out' = values
       ELSE /\ req' = UpdateRequest(values, jwtToken)
            /\ sent' = 1
            /\ \E r \in rs : Respond("update", "", "", r, values, FALSE)
    /\ UNCHANGED <<builder, render>>

\* Delete deletes records matching filters from the table
\* a Delete that gives the builder back without its pagination
Delete_ResetsLimit(jwtToken, rs) ==
    /\ op' = "Delete"
    /\ token' = jwtToken
    /\ arg' = NoArg
    /\ req' = DeleteRequest(jwtToken)
    /\ sent' = 1
    /\ \E r \in rs : Respond("delete", "", "", r, NoArg, FALSE)
    /\ limit' = 0
    /\ UNCHANGED <<client, tableName, filters, orders, offset, selectCols, render>>

\* Delete deletes the records matching the filters
Delete(jwtToken, rs) ==
    /\ op' = "Delete"
    /\ token' = jwtToken
    /\ arg' = NoArg
    /\ req' = DeleteRequest(jwtToken)
    /\ sent' = 1
    /\ \E r \in rs : Respond("delete", "", "", r, NoArg, FALSE)
    /\ UNCHANGED <<builder, render>>

\* the terminal calls, with the records and values the caller may pass and
\* the responses rs the transport may return
Table_Select(rs) == \E d \in Dests, t \in Tokens : Select(d, t, rs)
Table_Insert(recs, rs) == \E rec \in recs, t \in Tokens : Insert(rec, t, rs)
Table_Update(vals, rs) == \E v \in vals, t \in Tokens : Update(v, t, rs)
Table_Delete(rs) == \E t \in Tokens : Delete(t, rs)

\* no In call is under test
NoInArgs == [field |-> "", values |-> <<>>]

\* ---- the builder and its terminal operations
Configs == { [BaseURL |-> "https://p.supabase.co", APIKey |-> k] : k \in {"anon-key", "service-key"} }

NoFilter == simpleFilter("", "", NilV)

\* NewClient(cfg).Table(name): a fresh builder
Init ==
    /\ client \in { NewClient(cfg) : cfg \in Configs }
    /\ tableName = "tenants"
    /\ filters = <<>>
    /\ orders = <<>>
    /\ limit = 0
    /\ offset = 0
    /\ selectCols = <<>>
    /\ op = ""
    /\ token = ""
    /\ arg = NoArg
    /\ req = NoRequest
    /\ sent = 0
    /\ resp = NoResponse
    /\ err = NoError
    /\ out = NoArg
    /\ fin = NoFilter
    /\ fout = ""
    /\ fargs = NoInArgs

Next ==
    \/ Table_Eq
    \/ Table_NotEq
    \/ Table_Gt
    \/ Table_Lt
    \/ Table_Gte
    \/ Table_Lte
    \/ Table_Like
    \/ Table_ILike
    \/ Table_In
    \/ Table_And
    \/ Table_Or
    \/ Table_Select(MainResponses)
    \/ Table_Insert(MainRecords, MainResponses)
    \/ Table_Update(MainValues, MainResponses)
    \/ Table_Delete(MainResponses)

Spec == Init /\ [][Next]_vars

\* ---- the terminal operations against every response of the transport
CallFilters == { <<>>, <<Eq("id", StrV("t1"))>> }

InitCall ==
    /\ client \in { NewClient(cfg) : cfg \in Configs }
    /\ tableName = "tenants"
    /\ filters \in CallFilters
    /\ orders = <<>>
    /\ limit = 0
    /\ offset = 0
    /\ selectCols = <<>>
    /\ op = ""
    /\ token = ""
    /\ arg = NoArg
    /\ req = NoRequest
    /\ sent = 0
    /\ resp = NoResponse
    /\ err = NoError
    /\ out = NoArg
    /\ fin = NoFilter
    /\ fout = ""
    /\ fargs = NoInArgs

NextCall ==
    \/ Table_Select(Responses)
    \/ Table_Insert(Records, Responses)
    \/ Table_Update(UpdateValues, Responses)
    \/ Table_Delete(Responses)

SpecCall == InitCall /\ [][NextCall]_vars

\* ---- rendering of one filter
RenderFields == {"id", "deleted_at"}

RenderValues ==
    { NilV, NilPtr("*string"), NilPtr("*int"), NilPtr("*time.Time"),
      StrV("t1"), StrV("pro"), IntV(5), IntV(10) }

RenderPatterns == {"Ac%", "pro"}

RenderInputs ==
    UNION { { Eq(f, v), NotEq(f, v), Gt(f, v), Lt(f, v), Gte(f, v), Lte(f, v) } :
            f \in RenderFields, v \in RenderValues }
    \cup UNION { { Like(f, pat), ILike(f, pat) } : f \in RenderFields, pat \in RenderPatterns }

InitRender ==
    /\ client \in { NewClient(cfg) : cfg \in Configs }
    /\ tableName = "tenants"
    /\ filters = <<>>
    /\ orders = <<>>
    /\ limit = 0
    /\ offset = 0
    /\ selectCols = <<>>
    /\ op = ""
    /\ token = ""
    /\ arg = NoArg
    /\ req = NoRequest
    /\ sent = 0
    /\ resp = NoResponse
    /\ err = NoError
    /\ out = NoArg
    /\ fin \in RenderInputs
    /\ fout = ""
    /\ fargs = NoInArgs

\* f.toQuery() of the filter under test
Render ==
    /\ fout = ""
    /\ fout' = toQuery(fin)
    /\ UNCHANGED <<builder, call, fin, fargs>>

NextRender == Render

SpecRender == InitRender /\ [][NextRender]_vars

\* ---- In and the rendering of the filter it returns
MaxInValues == 3     \* values in the list handed to In

InValues ==
    { StrV("A"), StrV("B"), IntV(7), NilV, NilPtr("*string"), NilPtr("*int64"),
      PtrStr("pro", "0xc000014250"), PtrInt(12, "0xc000014258") }

InLists == UNION { [1..n -> InValues] : n \in 0..MaxInValues }

InitIn ==
    /\ client \in { NewClient(cfg) : cfg \in Configs }
    /\ tableName = "tenants"
    /\ filters = <<>>
    /\ orders = <<>>
    /\ limit = 0
    /\ offset = 0
    /\ selectCols = <<>>
    /\ op = ""
    /\ token = ""
    /\ arg = NoArg
    /\ req = NoRequest
    /\ sent = 0
    /\ resp = NoResponse
    /\ err = NoError
    /\ out = NoArg
    /\ fin = NoFilter
    /\ fout = ""
    /\ fargs \in { [field |-> "plan", values |-> vs] : vs \in InLists }

\* fin = In(field, values)
CallIn ==
    /\ fin = NoFilter
    /\ fin' = In(fargs.field, fargs.values)
    /\ UNCHANGED <<builder, call, fout, fargs>>

\* fin.toQuery() of the filter In returned
RenderIn ==
    /\ fin # NoFilter
    /\ fout = ""
    /\ fout' = toQuery(fin)
    /\ UNCHANGED <<builder, call, fin, fargs>>

NextIn == CallIn \/ RenderIn

SpecIn == InitIn /\ [][NextIn]_vars

\* ---- And, Or and the rendering of the filter they return
MaxChildren == 2     \* children of one group filter
MaxDepth == 2        \* nesting depth of group filters

GroupLeaves == { Eq("f1", StrV("v1")), Gt("f2", StrV("v2")), Eq("deleted_at", NilV) }

\* the filters a group is first built from, and the siblings it is given
GroupSeeds == GroupLeaves \cup { And(<<>>) }
GroupSiblings == GroupLeaves \cup { And(<<Eq("plan", StrV("pro")), Gt("max_users", IntV(5))>>) }

\* the nesting depth of a filter: 0 for a simple filter
RECURSIVE Depth(_)
Depth(f) ==
    IF f.kind = "simple" THEN 0
    ELSE IF Len(f.filters) = 0 THEN 1
    ELSE 1 + (CHOOSE d \in { Depth(f.filters[i]) : i \in 1..Len(f.filters) } :
                 \A i \in 1..Len(f.filters) : Depth(f.filters[i]) <= d)

\* the child lists of at most MaxChildren filters that hold f at position k
\* and siblings elsewhere
ChildLists(f) ==
    UNION { { [i \in 1..n |-> IF i = k THEN f ELSE sib[i]] : sib \in [1..n -> GroupSiblings] } :
            n \in 1..MaxChildren, k \in 1..MaxChildren }

InitGroup ==
    /\ client \in { NewClient(cfg) : cfg \in Configs }
    /\ tableName = "tenants"
    /\ filters = <<>>
    /\ orders = <<>>
    /\ limit = 0
    /\ offset = 0
    /\ selectCols = <<>>
    /\ op = ""
    /\ token = ""
    /\ arg = NoArg
    /\ req = NoRequest
    /\ sent = 0
    /\ resp = NoResponse
    /\ err = NoError
    /\ out = NoArg
    /\ fin \in GroupSeeds
    /\ fout = ""
    /\ fargs = NoInArgs

\* fin = And(children...) with the filter built so far among the children
CallAnd ==
    /\ fout = ""
    /\ Depth(fin) < MaxDepth
    /\ \E fs \in ChildLists(fin) : fin' = And(fs)
    /\ UNCHANGED <<builder, call, fout, fargs>>

\* fin = Or(children...) with the filter built so far among the children
CallOr ==
    /\ fout = ""
    /\ Depth(fin) < MaxDepth
    /\ \E fs \in ChildLists(fin) : fin' = Or(fs)
    /\ UNCHANGED <<builder, call, fout, fargs>>

\* fin.toQuery() of a group filter
RenderGroup ==
    /\ fin.kind = "group"
    /\ fout = ""
    /\ fout' = toQuery(fin)
    /\ UNCHANGED <<builder, call, fin, fargs>>

NextGroup == CallAnd \/ CallOr \/ RenderGroup

SpecGroup == InitGroup /\ [][NextGroup]_vars

\* ---- ordering, pagination and projection calls, and the requests they shape
MaxOrders == 2       \* order clauses on one builder

\* a chain call that takes an argument: the call and its argument are observed
ChainCall(name, a) ==
    /\ op' = name
    /\ token' = ""
    /\ arg' = a
    /\ req' = NoRequest
    /\ sent' = 0
    /\ resp' = NoResponse
    /\ err' = NoError
    /\ out' = NoArg

\* the direction with its case kept
OrderDirection_CaseSensitive(direction) ==
    IF direction # "asc" /\ direction # "desc" THEN "asc" ELSE direction

\* dir := strings.ToLower(direction); if dir != "asc" && dir != "desc" { dir = "asc" }
OrderDirection(direction) ==
    LET dir == ToLower(direction)
    IN  IF dir # "asc" /\ dir # "desc" THEN "asc" ELSE dir

order(field, direction) == [field |-> field, direction |-> direction]

OrderArgs ==
    { order(f, d) : f \in {"created_at"}, d \in {"desc", "DESC", "Desc", "asc", "ASC", "sideways", ""} }
LimitArgs == {0, 5, 10}
OffsetArgs == {0, 10}
ColumnArgs == { <<>>, <<"id">>, <<"id", "name">> }

\* OrderBy adds an order clause to the query
Table_OrderBy ==
    \E a \in OrderArgs :
        /\ Len(orders) < MaxOrders
        /\ orders' = Append(orders, order(a.field, OrderDirection(a.direction)))
        /\ ChainCall("OrderBy", [kind |-> "order", field |-> a.field, direction |-> a.direction])
        /\ UNCHANGED <<client, tableName, filters, limit, offset, selectCols, render>>

\* Limit sets the maximum number of records to return
Table_Limit ==
    \E n \in LimitArgs :
        /\ limit' = n
        /\ ChainCall("Limit", IntV(n))
        /\ UNCHANGED <<client, tableName, filters, orders, offset, selectCols, render>>

\* Offset sets the number of records to skip
Table_Offset ==
    \E n \in OffsetArgs :
        /\ offset' = n
        /\ ChainCall("Offset", IntV(n))
        /\ UNCHANGED <<client, tableName, filters, orders, limit, selectCols, render>>

\* SelectColumns sets the columns to fetch
Table_SelectColumns ==
    \E cols \in ColumnArgs :
        /\ selectCols' = cols
        /\ ChainCall("SelectColumns", [kind |-> "cols", cols |-> cols])
        /\ UNCHANGED <<client, tableName, filters, orders, limit, offset, render>>

NextQuery ==
    \/ Table_Gt
    \/ Table_OrderBy
    \/ Table_Limit
    \/ Table_Offset
    \/ Table_SelectColumns
    \/ Table_Select(MainResponses)

SpecQuery == Init /\ [][NextQuery]_vars

\* ---- one builder used for several terminal calls
ReuseResponses == MainResponses \cup { TransportError }

\* the ordering, offset and projection the reused builder was given
Pagings ==
    { [orders |-> <<>>, offset |-> 0, selectCols |-> <<>>],
      [orders |-> <<order("created_at", "desc")>>, offset |-> 10, selectCols |-> <<"id", "name">>] }

InitReuse ==
    /\ client \in { NewClient(cfg) : cfg \in Configs }
    /\ tableName = "tenants"
    /\ filters = <<>>
    /\ \E p \in Pagings :
           /\ orders = p.orders
           /\ offset = p.offset
           /\ selectCols = p.selectCols
    /\ limit = 0
    /\ op = ""
    /\ token = ""
    /\ arg = NoArg
    /\ req = NoRequest
    /\ sent = 0
    /\ resp = NoResponse
    /\ err = NoError
    /\ out = NoArg
    /\ fin = NoFilter
    /\ fout = ""
    /\ fargs = NoInArgs

NextReuse ==
    \/ Table_Gt
    \/ Table_Like
    \/ Table_Limit
    \/ Table_Select(ReuseResponses)
    \/ Table_Insert(Records, ReuseResponses)
    \/ Table_Update(UpdateValues, ReuseResponses)
    \/ Table_Delete(ReuseResponses)

SpecReuse == InitReuse /\ [][NextReuse]_vars

\* ------------------------------------------------------------ properties
\* the value of parameter k when the request carries exactly one, "" otherwise
ParamOf(r, k) ==
    IF Len(ParamValues(r.params, k)) = 1 THEN ParamValues(r.params, k)[1] ELSE ""

HasParam(r, k, v) == \E i \in 1..Len(r.params) : r.params[i] = <<k, v>>

FilterOps == {"Select", "Update", "Delete"}

\* C1: the query parameters of a request issued by Select, Update or Delete,
\* as the server decodes them, never contain the text <nil>.
C1_NeverSendsNilText ==
    (op \in FilterOps /\ req # NoRequest) =>
        \A i \in 1..Len(req.params) : ~Contains(req.params[i][2], "<nil>")

\* C2: Select renders Eq(field, nil) as field=is.null and NotEq(field, nil)
\* as field=not.is.null; no filter of the builder is dropped.
C2_NullFilterRendered ==
    (op = "Select" /\ req # NoRequest) =>
        \A i \in 1..Len(filters) :
            (filters[i].kind = "simple" /\ IsNilInterface(filters[i].value)) =>
                /\ filters[i].op = "eq" => HasParam(req, filters[i].field, "is.null")
                /\ filters[i].op = "neq" => HasParam(req, filters[i].field, "not.is.null")

\* the response carries a JSON body of inserted rows with a status below 400
InsertAnswered ==
    /\ op = "Insert"
    /\ req # NoRequest
    /\ ~resp.failed
    /\ resp.status < 400
    /\ resp.body.shape = "array"

\* C3: Insert returns no error when the record encodes, the transport call
\* completes and the server answers below 400 with the inserted rows, for a
\* record passed by value as for one passed as a pointer.
C3_InsertSucceeds == InsertAnswered => err = NoError

\* C4: Insert issues POST <baseURL>/rest/v1/<tableName> with the encoded
\* record as body and Prefer: return=representation, and after a success
\* response with an array of rows the record shows the server's rows.
C4_InsertReflectsRows ==
    /\ (op = "Insert" /\ req # NoRequest) =>
          /\ req.method = "POST"
          /\ req.url = client.BaseURL \o "/rest/v1/" \o tableName
          /\ req.body = Marshal(arg)[2]
          /\ HeaderGet(req.header, "Prefer") = "return=representation"
    /\ InsertAnswered => (out.rows = resp.body.rows /\ out.rows[1].id = "x1")

\* C5: a response with status >= 400 makes the operation return an error
\* whose message contains the response body text and leaves the destination
\* or record as it was; a status below 400 yields no server error.
C5_ServerError ==
    (op # "" /\ req # NoRequest /\ ~resp.failed) =>
        /\ resp.status >= 400 =>
              /\ err.kind = "server"
              /\ Contains(err.msg, resp.body.text)
              /\ out = arg
        /\ resp.status < 400 => err.kind # "server"

C5_Witness ==
    /\ op = "Select"
    /\ resp.status = 404
    /\ resp.body.text = "relation not found"
    /\ Contains(err.msg, "relation not found")
    /\ out = arg

\* C6: every request carries apikey = the client's APIKey, and carries
\* Authorization exactly when the token of that call is non-empty, with the
\* value "Bearer <token>", whatever calls came before.
C6_AuthHeaders ==
    (op # "" /\ req # NoRequest) =>
        /\ HeaderHas(req.header, "apikey")
        /\ HeaderGet(req.header, "apikey") = client.APIKey
        /\ HeaderHas(req.header, "Authorization") <=> (token # "")
        /\ (token # "") => HeaderGet(req.header, "Authorization") = "Bearer " \o token

C6_Witness ==
    /\ op = "Delete"
    /\ token = ""
    /\ req # NoRequest
    /\ ~HeaderHas(req.header, "Authorization")
    /\ HeaderGet(req.header, "apikey") = "service-key"

\* the text of a non-null scalar value
ScalarText(v) == IF v.kind = "string" THEN v.text ELSE Itoa(v.num)

\* C7: Select issues GET <baseURL>/rest/v1/<tableName> whose query has one
\* parameter per simple filter, named after its field with value
\* "<operator>.<value>", select=* without a projection (the column list
\* otherwise), order in OrderBy order, and the limit and offset set; the
\* single filter Eq("user_id", "u1") gives the parameters user_id=eq.u1 and
\* select=*.
C7_SelectQuery ==
    (op = "Select" /\ req # NoRequest) =>
        /\ req.method = "GET"
        /\ SubSeq(req.url, 1, Len(client.BaseURL \o "/rest/v1/" \o tableName))
              = client.BaseURL \o "/rest/v1/" \o tableName
        /\ \A i \in 1..Len(filters) :
              filters[i].kind = "simple" =>
                 \E j \in 1..Len(req.params) :
                    /\ req.params[j][1] = filters[i].field
                    /\ ~IsNull(filters[i].value) =>
                          req.params[j][2] = filters[i].op \o "." \o FmtV(filters[i].value)
        /\ HasParam(req, "select", IF Len(selectCols) = 0 THEN "*" ELSE Join(selectCols, ","))
        /\ Len(orders) > 0 =>
              HasParam(req, "order",
                       Join([i \in 1..Len(orders) |->
                                orders[i].field \o "." \o orders[i].direction], ","))
        /\ limit > 0 => HasParam(req, "limit", Itoa(limit))
        /\ offset > 0 => HasParam(req, "offset", Itoa(offset))
        /\ filters = <<Eq("user_id", StrV("u1"))>> =>
              { req.params[j] : j \in 1..Len(req.params) }
                 = { <<"user_id", "eq.u1">>, <<"select", "*">> }

\* the parenthesised child list of a group filter
ChildList(g) ==
    "(" \o Join([i \in 1..Len(g.filters) |-> toQuery(g.filters[i])], ",") \o ")"

\* C8: in the query built by Select and by Update every group filter of the
\* builder contributes a parameter named and / or whose value is the
\* parenthesised list of its children in the order given.
C8_GroupParam ==
    (op \in {"Select", "Update"} /\ req # NoRequest) =>
        \A i \in 1..Len(filters) :
            filters[i].kind = "group" =>
                HasParam(req, filters[i].operator, ChildList(filters[i]))

\* C9: Delete carries exactly one or parameter, which combines the predicate
\* strings of all the builder's filters.
C9_DeleteSingleOr ==
    (op = "Delete" /\ req # NoRequest /\ Len(filters) >= 1) =>
        /\ Len(ParamValues(req.params, "or")) = 1
        /\ \A i \in 1..Len(filters) : Contains(ParamOf(req, "or"), toQuery(filters[i]))

SimpleOps == {"eq", "neq", "gt", "lt", "gte", "lte", "like", "ilike"}

ElemToken(v) ==
    IF v.kind \in {"nil", "nilptr"} THEN "null"
    ELSE IF v.kind = "string" \/ (v.kind = "ptr" /\ v.typ = "*string") THEN v.text
    ELSE Itoa(v.num)

\* C11: In(field, values) renders as <field>.in.(v1,v2,...) with one element
\* per value in input order, null for a nil value or a nil pointer and the
\* value's string form otherwise.
C11_InRendering ==
    (fargs # NoInArgs /\ fout # "") =>
        fout = fargs.field \o ".in.("
                 \o Join([i \in 1..Len(fargs.values) |-> ElemToken(fargs.values[i])], ",")
                 \o ")"

\* the number of characters c among the first n characters of s
CountIn(s, c, n) == Cardinality({ j \in 1..n : CharAt(s, j) = c })

\* every closing parenthesis of s closes an open one and none stays open
Balanced(s) ==
    /\ \A n \in 1..Len(s) : CountIn(s, ")", n) <= CountIn(s, "(", n)
    /\ CountIn(s, ")", Len(s)) = CountIn(s, "(", Len(s))

\* <and|or>(<child1>,<child2>,...) with every child written the same way
RECURSIVE GroupText(_)
GroupText(f) ==
    IF f.kind = "simple" THEN simpleToQuery(f)
    ELSE f.operator \o "("
           \o Join([i \in 1..Len(f.filters) |-> GroupText(f.filters[i])], ",") \o ")"

\* C12: a group filter built by And or Or renders, at any nesting depth, as
\* <and|or>(<child1>,<child2>,...) with the children rendered recursively in
\* the order given and balanced parentheses.
C12_GroupRendering ==
    (fin.kind = "group" /\ fout # "") =>
        /\ fout = GroupText(fin)
        /\ Balanced(fout)
        /\ SubSeq(fout, 1, Len(fin.operator) + 1) = fin.operator \o "("
        /\ fin = And(<<Eq("f1", StrV("v1")), Gt("f2", StrV("v2"))>>)
               => fout = "and(f1.eq.v1,f2.gt.v2)"

C12_Witness ==
    /\ fin = Or(<<And(<<Eq("f1", StrV("v1")), Gt("f2", StrV("v2"))>>), Eq("deleted_at", NilV)>>)
    /\ fout = "or(and(f1.eq.v1,f2.gt.v2),deleted_at.is.null)"

\* the spellings of desc that differ only in case
DescSpellings == {"desc", "DESC", "Desc", "dESC", "deSC", "desC", "DEsc", "DeSc", "DesC",
                  "dEsc", "dEsC", "deSc", "DESc", "DEsC", "DeSC", "dESc"}

\* C13: OrderBy never fails and appends exactly one order clause, desc when
\* the direction is "desc" in any case and asc for every other string; the
\* clauses before it stay in call order.
C13_OrderBy ==
    [][op' = "OrderBy" =>
          /\ err' = NoError
          /\ Len(orders') = Len(orders) + 1
          /\ SubSeq(orders', 1, Len(orders)) = orders
          /\ orders'[Len(orders')].field = arg'.field
          /\ orders'[Len(orders')].direction =
                 (IF arg'.direction \in DescSpellings THEN "desc" ELSE "asc")]_vars

C13_Witness ==
    /\ op = "OrderBy"
    /\ arg.direction = "DESC"
    /\ orders = <<order("created_at", "asc"), order("created_at", "desc")>>

\* the last Limit, Offset or SelectColumns call overwrites its own field with
\* its argument and every other call leaves the three fields alone
LastCallWins ==
    /\ op' = "Limit" => limit' = arg'.num /\ UNCHANGED <<offset, selectCols>>
    /\ op' = "Offset" => offset' = arg'.num /\ UNCHANGED <<limit, selectCols>>
    /\ op' = "SelectColumns" => selectCols' = arg'.cols /\ UNCHANGED <<limit, offset>>
    /\ op' \notin {"Limit", "Offset", "SelectColumns"} => UNCHANGED <<limit, offset, selectCols>>

\* the request of a Select step carries the builder's limit, offset and
\* projection: a limit set by the call just before or greater than zero is
\* the limit parameter, the offset is the offset parameter (none skips no
\* row, as offset 0 does) and the projection is the select parameter (* for
\* the empty list, which stands for all columns)
SelectCarries ==
    op' = "Select" =>
        /\ (op = "Limit" \/ limit > 0) => ParamValues(req'.params, "limit") = <<Itoa(limit)>>
        /\ ParamValues(req'.params, "offset") \in
               (IF offset = 0 THEN { <<>>, <<"0">> } ELSE { <<Itoa(offset)>> })
        /\ ParamValues(req'.params, "select") =
               <<IF Len(selectCols) = 0 THEN "*" ELSE Join(selectCols, ",")>>

\* C14: after any chain calls the builder's limit, offset and projection are
\* the arguments of the last Limit, Offset and SelectColumns calls, earlier
\* values being overwritten, and the request of Select carries exactly those.
C14_LastValuesCarried == [][LastCallWins /\ SelectCarries]_vars

TerminalOps == {"Select", "Insert", "Update", "Delete"}

\* C15: the same terminal operation called twice on a builder, with no chain
\* call in between, issues the identical request URL and query string.
C15_SameRequestTwice ==
    [][(op \in TerminalOps /\ op' = op /\ sent = 1 /\ sent' = 1) =>
           /\ req'.url = req.url
           /\ req'.params = req.params
           /\ req'.method = req.method]_vars

C15_Witness ==
    /\ op = "Select"
    /\ Len(filters) = 2
    /\ limit = 5
    /\ req.url = "https://p.supabase.co/rest/v1/tenants?limit=5&max_users=gt.5&name=like.Ac%25"
                    \o "&offset=10&order=created_at.desc&select=id%2Cname"

\* the query parameters of a request that come from filters
FilterParams(r) ==
    { i \in 1..Len(r.params) : r.params[i][1] \notin {"limit", "offset", "order", "select"} }

\* C16: no terminal operation, succeeding or failing, changes the builder's
\* filters, order clauses, limit, offset or projection; every step keeps the
\* filters added so far in insertion order, and the filters added before an
\* earlier terminal call are rendered by a later one.
C16_TerminalsKeepBuilder ==
    [][/\ op' \in TerminalOps => UNCHANGED <<filters, orders, limit, offset, selectCols>>
       /\ \/ filters' = filters
          \/ /\ Len(filters') = Len(filters) + 1
             /\ SubSeq(filters', 1, Len(filters)) = filters
       /\ (op' \in {"Select", "Update", "Delete"} /\ sent' = 1) =>
              Cardinality(FilterParams(req')) = Len(filters)]_vars

C16_Witness ==
    /\ op = "Delete"
    /\ err # NoError
    /\ filters = <<Gt("max_users", IntV(5)), Like("name", "Ac%")>>
    /\ limit = 10
    /\ req.params = <<<<"or", "max_users.gt.5">>, <<"or", "name.like.Ac%">>>>

\* C17: a terminal call makes at most one HTTP call, and exactly one when
\* its request was built; an Insert or Update whose body cannot be encoded
\* returns the error with no HTTP call made, and a transport, server or
\* decoding error is returned after the one call, with no second one.
C17_OneHttpCall ==
    op \in TerminalOps =>
        /\ sent \in {0, 1}
        /\ req # NoRequest <=> sent = 1
        /\ sent = 0 <=> (op \in {"Insert", "Update"} /\ ~Marshal(arg)[1])
        /\ sent = 0 => err.kind = "marshal" /\ resp = NoResponse
        /\ err.kind \in {"transport", "server", "decode"} => sent = 1 /\ resp # NoResponse

C17_Witness ==
    /\ op = "Update"
    /\ arg.shape = "chan"
    /\ err # NoError
    /\ sent = 0

====
